---- MODULE Spec2Model ----
(***************************************************************************)
(* A model of waybar-ai-usage: the two entry points claude.py and codex.py *)
(* (main, get_*_usage, print_waybar, print_cli) and the shared library     *)
(* common.py (load_cookies, parse_window_*, format_eta, format_output).    *)
(*                                                                         *)
(* Text is a sequence of tokens.  The characters the code inspects         *)
(* (braces, "?", "/", "&", digits, the letters of the short field names)   *)
(* are one token each; a run of text the code never looks into (an icon's  *)
(* markup, a fixed message, a long field name) is one opaque token.        *)
(* Time is counted in ticks of half a second, relative to the instant the  *)
(* program reads the clock.                                                *)
(***************************************************************************)
EXTENDS Integers, Sequences, FiniteSets, TLC

VARIABLES
    unit,       \* what runs: "claude", "codex", or "lib" (common.py called directly)
    args,       \* the parsed command line of main
    pc,         \* position of the run
    cookies,    \* result of load_cookies inside get_*_usage
    attempt,    \* loop variable of the retry loop
    last_error, \* local last_error of get_*_usage
    log,        \* outcome of each attempt of the retry loop so far
    last_resp,  \* the last upstream response received
    reqs,       \* number of requests sent to each upstream endpoint
    usage,      \* the decoded upstream payload returned by get_*_usage
    data,       \* the data mapping print_waybar builds
    stdout,     \* what the run printed on standard output
    stderr,     \* what the run printed on standard error
    exit_code,  \* the process exit code, once exited
    exc,        \* the exception in flight or left uncaught
    eta_call,   \* a direct call of format_eta: its input and result
    fmt_call,   \* a direct call of format_output: its inputs and result
    cookie_call \* a direct call of load_cookies: its inputs and result

vars == <<unit, args, pc, cookies, attempt, last_error, log, last_resp, reqs,
          usage, data, stdout, stderr, exit_code, exc, eta_call, fmt_call,
          cookie_call>>

(***************************************************************************)
(* Bounds of the model.                                                    *)
(***************************************************************************)
MaxSkew == 4        \* reset times lie up to MaxSkew ticks before a boundary
MaxParts == 3       \* a template of a direct format_output call has at most MaxParts pieces

(***************************************************************************)
(* Text helpers.                                                           *)
(***************************************************************************)
DigitChars == <<"0", "1", "2", "3", "4", "5", "6", "7", "8", "9">>

DigitSet == {DigitChars[i] : i \in 1..10}

RECURSIVE Digits(_)
\* str(n) for a natural number n
Digits(n) ==
    IF n < 10 THEN <<DigitChars[n + 1]>>
    ELSE Digits(n \div 10) \o <<DigitChars[(n % 10) + 1]>>

\* f"{n:02}": at least two digits, zero padded
Pad2(n) == IF n < 10 THEN <<"0">> \o Digits(n) ELSE Digits(n)

\* f"{n:>3}": right aligned in a field of three
Pad3(n) ==
    IF n < 10 THEN <<" ", " ">> \o Digits(n)
    ELSE IF n < 100 THEN <<" ">> \o Digits(n)
    ELSE Digits(n)

\* int(x) of a number of ticks taken as seconds: truncation toward zero
TruncSeconds(ticks) ==
    IF ticks >= 0 THEN ticks \div 2 ELSE -((-ticks) \div 2)

\* round(x) of a utilization given in tenths: nearest integer, ties to even
RoundHalfEven(tenths) ==
    IF tenths % 10 < 5 THEN tenths \div 10
    ELSE IF tenths % 10 > 5 THEN (tenths \div 10) + 1
    ELSE IF (tenths \div 10) % 2 = 0 THEN tenths \div 10 ELSE (tenths \div 10) + 1

(***************************************************************************)
(* Values of the data mapping: an int or a str, both carried as text.      *)
(***************************************************************************)
IntVal(n) == [int |-> TRUE, txt |-> Digits(n)]
StrVal(t) == [int |-> FALSE, txt |-> t]

NotStarted == <<"Not started">>

\* Python truthiness of a value: a non-zero int, a non-empty str
Truthy(v) == IF v.int THEN v.txt # <<"0">> ELSE v.txt # <<>>

(***************************************************************************)
(* format_eta (common.py).  A reset time is absent, a string that does not *)
(* parse, or a time given as the ticks that remain until it.               *)
(***************************************************************************)
NoReset == [kind |-> "none", t |-> 0]
BadReset == [kind |-> "bad", t |-> 0]
ResetAt(k, t) == [kind |-> k, t |-> t]

\* "if reset_at:" is false for None (and for the empty string and epoch 0, not modelled)
Present(r) == r.kind # "none"

\* the placeholders; U+2032 and U+2033 are written as the tokens "prime" and "dprime"
EtaAbsent == <<"0", "prime", "0", "0", "dprime">>
EtaError == <<"?", "?", "prime", "?", "?", "dprime">>

\* format_eta with the hours form from above 3600 seconds instead of from 3600
format_eta_above_hour(reset_at) ==
    IF ~Present(reset_at) THEN EtaAbsent
    ELSE IF reset_at.kind = "bad" THEN EtaError
    ELSE LET secs == TruncSeconds(reset_at.t) IN
        IF secs <= 0 THEN <<"0", "m", "0", "0", "s">>
        ELSE IF secs >= 86400
            THEN Digits(secs \div 86400) \o <<"d">> \o Pad2((secs % 86400) \div 3600) \o <<"h">>
        ELSE IF secs > 3600
            THEN Digits(secs \div 3600) \o <<"h">> \o Pad2((secs % 3600) \div 60) \o <<"m">>
        ELSE Digits(secs \div 60) \o <<"m">> \o Pad2(secs % 60) \o <<"s">>

format_eta(reset_at) ==
    IF ~Present(reset_at) THEN EtaAbsent
    ELSE IF reset_at.kind = "bad" THEN EtaError
    ELSE LET secs == TruncSeconds(reset_at.t) IN
        IF secs <= 0 THEN <<"0", "m", "0", "0", "s">>
        ELSE IF secs >= 86400
            THEN Digits(secs \div 86400) \o <<"d">> \o Pad2((secs % 86400) \div 3600) \o <<"h">>
        ELSE IF secs >= 3600
            THEN Digits(secs \div 3600) \o <<"h">> \o Pad2((secs % 3600) \div 60) \o <<"m">>
        ELSE Digits(secs \div 60) \o <<"m">> \o Pad2(secs % 60) \o <<"s">>

(***************************************************************************)
(* format_output (common.py): the two re.sub passes and str.format.        *)
(* A result is [err, out, blocks]: err names the exception raised ("" for  *)
(* none), out is the text produced, blocks lists the conditional blocks    *)
(* the callbacks were called for, in order.                                *)
(***************************************************************************)
FieldNames == {"5h_pct", "7d_pct", "5h_reset", "7d_reset", "icon", "icon_plain",
               "time_icon", "time_icon_plain", "status", "pct", "reset", "win"}

\* the tokens the regular expression class \w matches
WordTokens == {"a", "b", "c", "x", "_", "nope"} \cup DigitSet \cup FieldNames

Min(S) == CHOOSE j \in S : \A k \in S : j <= k

\* first index >= from of a token of the set, 0 when there is none
FindToken(s, from, set) ==
    LET idx == {j \in from..Len(s) : s[j] \in set}
    IN  IF idx = {} THEN 0 ELSE Min(idx)

\* first index >= from where pat occurs in s, 0 when there is none
FindSeq(s, from, pat) ==
    LET idx == {j \in from..(Len(s) - Len(pat) + 1) : SubSeq(s, j, j + Len(pat) - 1) = pat}
    IN  IF idx = {} THEN 0 ELSE Min(idx)

\* pat in s
Contains(s, pat) == FindSeq(s, 1, pat) # 0

Ok(out, blocks) == [err |-> "", out |-> out, blocks |-> blocks]
Raise(e, blocks) == [err |-> e, out |-> <<>>, blocks |-> blocks]

\* head followed by the rest; the first exception raised wins
Then(head, rest) ==
    IF head.err # "" THEN head
    ELSE IF rest.err # "" THEN Raise(rest.err, head.blocks \o rest.blocks)
    ELSE Ok(head.out \o rest.out, head.blocks \o rest.blocks)

\* the key a field name denotes: every key of a mapping is a single token
KeyOf(name) == IF Len(name) = 1 THEN name[1] ELSE ""

AllDigits(name) == \A k \in 1..Len(name) : name[k] \in DigitSet

\* FormatField with a field that is no key of the mapping left blank
FormatField_blank(name, d) ==
    IF name = <<>> \/ AllDigits(name) THEN Raise("IndexError", <<>>)
    ELSE IF KeyOf(name) \notin DOMAIN d THEN Ok(<<>>, <<>>)
    ELSE Ok(d[KeyOf(name)].txt, <<>>)

\* one replacement field "{name}" of str.format(**data)
FormatField(name, d) ==
    IF name = <<>> \/ AllDigits(name) THEN Raise("IndexError", <<>>)
    ELSE IF KeyOf(name) \notin DOMAIN d THEN Raise("KeyError", <<>>)
    ELSE Ok(d[KeyOf(name)].txt, <<>>)

RECURSIVE FormatFrom(_, _, _)
\* the replacement field that opens at index i and closes at index j (0: it never closes)
FormatFieldAt(s, i, j, d) ==
    IF j = 0 \/ s[j] = "{" THEN Raise("ValueError", <<>>)
    ELSE Then(FormatField(SubSeq(s, i + 1, j - 1), d), FormatFrom(s, j + 1, d))

\* s[i..].format(**d)
FormatFrom(s, i, d) ==
    IF i > Len(s) THEN Ok(<<>>, <<>>)
    ELSE IF s[i] = "{" THEN
        IF i < Len(s) /\ s[i + 1] = "{" THEN Then(Ok(<<"{">>, <<>>), FormatFrom(s, i + 2, d))
        ELSE FormatFieldAt(s, i, FindToken(s, i + 1, {"{", "}"}), d)
    ELSE IF s[i] = "}" THEN
        IF i < Len(s) /\ s[i + 1] = "}" THEN Then(Ok(<<"}">>, <<>>), FormatFrom(s, i + 2, d))
        ELSE Raise("ValueError", <<>>)
    ELSE Then(Ok(<<s[i]>>, <<>>), FormatFrom(s, i + 1, d))

\* str.format(**d)
Format(s, d) == FormatFrom(s, 1, d)

RECURSIVE Split(_, _)
\* s.split(sep), the first separator at index j (0: there is none)
SplitAt(s, sep, j) ==
    IF j = 0 THEN <<s>>
    ELSE <<SubSeq(s, 1, j - 1)>> \o Split(SubSeq(s, j + 1, Len(s)), sep)

\* s.split(sep)
Split(s, sep) == SplitAt(s, sep, FindToken(s, 1, {sep}))

RECURSIVE Strip(_)
\* s.strip()
Strip(s) ==
    IF s = <<>> THEN s
    ELSE IF s[1] = " " THEN Strip(Tail(s))
    ELSE IF s[Len(s)] = " " THEN Strip(SubSeq(s, 1, Len(s) - 1))
    ELSE s

\* Shown without the truthiness test: present and not the sentinel
Shown_not_sentinel(name, d) ==
    /\ KeyOf(name) \in DOMAIN d
    /\ d[KeyOf(name)].txt # NotStarted

\* "data.get(v, "") and data.get(v, "") != 'Not started'"
Shown(name, d) ==
    /\ KeyOf(name) \in DOMAIN d
    /\ Truthy(d[KeyOf(name)])
    /\ d[KeyOf(name)].txt # NotStarted

\* a conditional block a callback was called for: the names it lists, its content,
\* whether it was shown, and the text the callback returned for it
Block(names, content, taken, emitted) ==
    [names |-> names, content |-> content, taken |-> taken, emitted |-> emitted]

\* the names of a multi-variable block, each stripped
StripAll(var_names) == [k \in 1..Len(var_names) |-> Strip(var_names[k])]

\* "return content.format(**data)"
Expanded(names, content, r) ==
    IF r.err # "" THEN Raise(r.err, <<Block(names, content, TRUE, <<>>)>>)
    ELSE Ok(r.out, <<Block(names, content, TRUE, r.out)>>)

\* a block whose names are given: its content expanded, or nothing
Expand(names, content, shown, d) ==
    IF shown THEN Expanded(names, content, Format(content, d))
    ELSE Ok(<<>>, <<Block(names, content, FALSE, <<>>)>>)

AllShown(names, d) == \A k \in 1..Len(names) : Shown(names[k], d)

\* the callback of the first pass
replace_multi_conditional(group1, content, d) ==
    Expand(StripAll(Split(group1, "&")), content, AllShown(StripAll(Split(group1, "&")), d), d)

\* the callback of the second pass
replace_conditional(var_name, content, d) ==
    Expand(<<var_name>>, content, Shown(var_name, d), d)

NoMatch == [ok |-> FALSE, group1 |-> <<>>, content |-> <<>>, end |-> 0]

\* a match that starts at i, whose opening tag closes at j and whose closing tag,
\* of the given length, starts at e (0: there is none)
MatchUpTo(s, i, j, e, taglen) ==
    IF e = 0 THEN NoMatch
    ELSE [ok |-> TRUE, group1 |-> SubSeq(s, i + 2, j - 1),
          content |-> SubSeq(s, j + 1, e - 1), end |-> e + taglen - 1]

\* the opening tag "{?" group1 "}" at i, with j the first "}" after it
MultiOpen(s, i, j) ==
    IF j = 0 \/ ~(\E k \in (i + 3)..(j - 2) : s[k] = "&") THEN NoMatch
    ELSE MatchUpTo(s, i, j, FindSeq(s, j + 1, <<"{", "/", "}">>), 3)

\* a match of \{\?([^}]+&[^}]+)\}(.*?)\{/\} that starts at index i
MultiMatch(s, i) ==
    IF ~(i + 1 <= Len(s) /\ s[i] = "{" /\ s[i + 1] = "?") THEN NoMatch
    ELSE MultiOpen(s, i, FindToken(s, i + 2, {"}"}))

\* the opening tag "{?" name "}" at i, with j the first token after i + 1 that \w does not match
SingleOpen(s, i, j) ==
    IF j = 0 \/ j = i + 2 \/ s[j] # "}" THEN NoMatch
    ELSE MatchUpTo(s, i, j,
                   FindSeq(s, j + 1, <<"{", "/">> \o SubSeq(s, i + 2, j - 1) \o <<"}">>),
                   j - i + 1)

NonWord(s) == {c \in {s[k] : k \in 1..Len(s)} : c \notin WordTokens}

\* a match of \{\?(\w+)\}(.*?)\{/\1\} that starts at index i
SingleMatch(s, i) ==
    IF ~(i + 1 <= Len(s) /\ s[i] = "{" /\ s[i + 1] = "?") THEN NoMatch
    ELSE SingleOpen(s, i, FindToken(s, i + 2, NonWord(s)))

RECURSIVE SubMulti(_, _, _)
\* the first pass at index i, where m is the match that starts there
SubMultiAt(s, i, d, m) ==
    IF m.ok THEN Then(replace_multi_conditional(m.group1, m.content, d), SubMulti(s, m.end + 1, d))
    ELSE Then(Ok(<<s[i]>>, <<>>), SubMulti(s, i + 1, d))

\* re.sub of the first pass over s[i..]
SubMulti(s, i, d) ==
    IF i > Len(s) THEN Ok(<<>>, <<>>) ELSE SubMultiAt(s, i, d, MultiMatch(s, i))

RECURSIVE SubSingle(_, _, _)
\* the second pass at index i, where m is the match that starts there
SubSingleAt(s, i, d, m) ==
    IF m.ok THEN Then(replace_conditional(m.group1, m.content, d), SubSingle(s, m.end + 1, d))
    ELSE Then(Ok(<<s[i]>>, <<>>), SubSingle(s, i + 1, d))

\* re.sub of the second pass over s[i..]
SubSingle(s, i, d) ==
    IF i > Len(s) THEN Ok(<<>>, <<>>) ELSE SubSingleAt(s, i, d, SingleMatch(s, i))

\* a later pass, run on what the pass before it produced
After(before, pass) ==
    IF pass.err # "" THEN Raise(pass.err, before.blocks \o pass.blocks)
    ELSE Ok(pass.out, before.blocks \o pass.blocks)

SecondPass(first, d) ==
    IF first.err # "" THEN first ELSE After(first, SubSingle(first.out, 1, d))

LastPass(second, d) ==
    IF second.err # "" THEN second ELSE After(second, Format(second.out, d))

format_output(format_string, d) ==
    LastPass(SecondPass(SubMulti(format_string, 1, d), d), d)

(***************************************************************************)
(* Inputs of the direct calls of the library functions.                    *)
(***************************************************************************)
\* the pieces templates are put together from
Pieces ==
    { <<"x">>,
      <<"{", "a", "}">>,
      <<"{", "b", "}">>,
      <<"{", "?", "a", "}">>,
      <<"{", "/", "a", "}">>,
      <<"{", "?", "a", "&", "b", "}">>,
      <<"{", "/", "}">>,
      <<"{", "{">>,
      <<"}", "}">> }

RECURSIVE TemplatesOf(_)
\* the templates of at most n pieces
TemplatesOf(n) ==
    IF n = 0 THEN {<<>>}
    ELSE LET prev == TemplatesOf(n - 1)
         IN  prev \cup {t \o p : t \in prev, p \in Pieces}

Templates == TemplatesOf(MaxParts)

\* the values the field a takes: a str (empty, the sentinel, other) or an int
ValuesA == {StrVal(<<>>), StrVal(NotStarted), StrVal(<<"v">>), IntVal(0), IntVal(7)}
ValuesB == {StrVal(NotStarted), StrVal(<<"w">>), IntVal(0)}

\* the mappings over the fields a and b, each present or not
Mappings ==
    {[k \in K |-> IF k = "a" THEN va ELSE vb] :
        K \in {{"a", "b"}}, va \in ValuesA, vb \in ValuesB}
    \cup {[k \in {"a"} |-> va] : va \in ValuesA}
    \cup {[k \in {"b"} |-> vb] : vb \in ValuesB}
    \cup {[k \in {} |-> StrVal(<<>>)]}

(***************************************************************************)
(* Upstream payloads.  A raw window carries the fields the two services    *)
(* send: a utilization (a number, in tenths of a percent, or null), a      *)
(* reset time, and for codex the seconds until the reset and the length of *)
(* the window, each a number, null, or missing.                            *)
(***************************************************************************)
Num(v) == [kind |-> "num", v |-> v]
Null == [kind |-> "null", v |-> 0]
Missing == [kind |-> "missing", v |-> 0]

RawWindow(used, resets_at, reset_after, limit) ==
    [present |-> TRUE, used |-> used, resets_at |-> resets_at,
     reset_after_seconds |-> reset_after, limit_window_seconds |-> limit]

\* a window the payload does not hold (or holds as null)
NullWindow ==
    [present |-> FALSE, used |-> Missing, resets_at |-> NoReset,
     reset_after_seconds |-> Missing, limit_window_seconds |-> Missing]

Usage(short, long) == [short |-> short, long |-> long]

NoUsage == Usage(NullWindow, NullWindow)

FiveHours == 18000
SevenDays == 604800

\* utilizations, in tenths: around the class thresholds (short) and the switch thresholds (long)
ShortUtils == {0, 5, 494, 495, 794, 795, 1000}
LongUtils == {0, 800, 801, 954, 1000, 1004}

\* reset times near the full length of a window of the given seconds, and one well inside it
NearFull(seconds) == {ResetAt("iso", 2 * seconds + off) : off \in (0 - MaxSkew)..1}

ClaudeShortResets ==
    {NoReset, BadReset, ResetAt("iso", 2 * 4000), ResetAt("int", 2 * FiveHours)}
    \cup NearFull(FiveHours)

ClaudeLongResets ==
    {NoReset, BadReset, ResetAt("iso", 2 * 90000), ResetAt("iso", 2 * SevenDays)}

ClaudeWindows(utils, resets) ==
    {NullWindow} \cup
    {RawWindow(u, r, Missing, Missing) : u \in {Num(x) : x \in utils} \cup {Null}, r \in resets}

ClaudePayloads ==
    {Usage(s, l) : s \in ClaudeWindows(ShortUtils, ClaudeShortResets),
                   l \in ClaudeWindows(LongUtils, ClaudeLongResets)}

\* codex: the seconds that remain, sent next to the reset time they belong to
CodexTimed(seconds, limit) == RawWindow(Null, ResetAt("int", 2 * seconds), Num(seconds), limit)

CodexShortTimings ==
    {RawWindow(Null, NoReset, Missing, Num(FiveHours)),
     CodexTimed(4000, Num(FiveHours)),
     RawWindow(Null, ResetAt("int", 2 * FiveHours), Null, Num(FiveHours)),
     CodexTimed(FiveHours, Null),
     RawWindow(Null, ResetAt("int", 2 * FiveHours), Missing, Missing)}
    \cup {CodexTimed(FiveHours - k, Num(FiveHours)) : k \in 0..(MaxSkew \div 2)}

CodexLongTimings ==
    {RawWindow(Null, NoReset, Missing, Num(SevenDays)),
     CodexTimed(90000, Num(SevenDays)),
     RawWindow(Null, ResetAt("int", 2 * SevenDays), Null, Num(SevenDays))}

CodexWindows(utils, timings) ==
    {NullWindow} \cup
    {[w EXCEPT !.used = u] : w \in timings, u \in {Num(x) : x \in utils} \cup {Null}}

CodexPayloads ==
    {Usage(s, l) : s \in CodexWindows(ShortUtils, CodexShortTimings),
                   l \in CodexWindows(LongUtils, CodexLongTimings)}

(***************************************************************************)
(* parse_window_percent and parse_window_direct (common.py): a WindowUsage *)
(* with the utilization in tenths.                                         *)
(***************************************************************************)
WindowUsage(utilization, resets_at) == [utilization |-> utilization, resets_at |-> resets_at]

\* "raw.get(key) or 0", then float()
parse_window_percent(raw) ==
    WindowUsage(IF raw.present /\ raw.used.kind = "num" THEN raw.used.v ELSE 0,
                IF raw.present THEN raw.resets_at ELSE NoReset)

parse_window_direct(raw) ==
    WindowUsage(IF raw.present /\ raw.used.kind = "num" THEN raw.used.v ELSE 0,
                IF raw.present THEN raw.resets_at ELSE NoReset)

(***************************************************************************)
(* print_waybar (claude.py, codex.py).                                     *)
(***************************************************************************)
\* "format_eta(w.resets_at) if w.resets_at else 'Not started'"
ResetStr(w) == IF Present(w.resets_at) THEN format_eta(w.resets_at) ELSE NotStarted

\* int(round(w.utilization))
Pct(w) == RoundHalfEven(w.utilization)

\* the window chosen for display: "short" or "long"
claude_target(fh, sd, show_5h) ==
    IF show_5h THEN "short"
    ELSE IF sd.utilization >= 1000 THEN "long"
    ELSE IF sd.utilization > 800 THEN "long"
    ELSE "short"

\* codex_target with the switch to the long window at 80 instead of above 80
codex_target_at_80(p_win, s_win, show_5h) ==
    IF show_5h THEN "short"
    ELSE IF s_win.utilization >= 1000 THEN "long"
    ELSE IF s_win.utilization >= 800 THEN "long"
    ELSE "short"

codex_target(p_win, s_win, show_5h) ==
    IF show_5h THEN "short"
    ELSE IF s_win.utilization >= 1000 THEN "long"
    ELSE IF s_win.utilization > 800 THEN "long"
    ELSE "short"

\* claude: "is_unused", computed from the reset time; a parse failure leaves it False
claude_is_unused(target, window_length) ==
    IF target.utilization = 0 /\ Present(target.resets_at)
    THEN IF target.resets_at.kind = "bad" THEN FALSE
         ELSE TruncSeconds(target.resets_at.t) >= window_length - 1
    ELSE FALSE

\* codex: "used_pct == 0 and reset_after >= window_length - 1" raises TypeError
\* when used_pct == 0 and one of the two numbers is None
codex_unused_raises(target_raw) ==
    LET used_zero == \/ target_raw.used.kind = "missing"
                     \/ target_raw.used.kind = "num" /\ target_raw.used.v = 0
    IN  /\ used_zero
        /\ \/ target_raw.limit_window_seconds.kind = "null"
           \/ target_raw.reset_after_seconds.kind = "null"

\* ".get(key, 0)" of a field that is a number or missing
GetOrZero(f) == IF f.kind = "num" THEN f.v ELSE 0

codex_is_unused(target_raw) ==
    LET used_zero == \/ target_raw.used.kind = "missing"
                     \/ target_raw.used.kind = "num" /\ target_raw.used.v = 0
    IN  /\ used_zero
        /\ GetOrZero(target_raw.reset_after_seconds) >= GetOrZero(target_raw.limit_window_seconds) - 1

window_not_started(target) == target.utilization = 0 /\ ~Present(target.resets_at)

\* claude_status with the unused window tested before the exhausted long window
claude_status_ready_first(sd, is_unused, not_started) ==
    IF is_unused \/ not_started THEN <<"Ready">>
    ELSE IF sd.utilization >= 1000 THEN <<"Pause">>
    ELSE <<>>

claude_status(sd, is_unused, not_started) ==
    IF sd.utilization >= 1000 THEN <<"Pause">>
    ELSE IF is_unused \/ not_started THEN <<"Ready">>
    ELSE <<>>

codex_status(s_win, is_unused, not_started) ==
    IF s_win.utilization >= 1000 THEN <<"Pause">>
    ELSE IF is_unused \/ not_started THEN <<"Ready">>
    ELSE <<>>

\* claude_class with 50 still in the low class
claude_class_low_at_50(pct) ==
    IF pct <= 50 THEN "claude-low" ELSE IF pct < 80 THEN "claude-mid" ELSE "claude-high"

\* the severity class of a percentage: "low", "mid" or "high"
claude_class(pct) == IF pct < 50 THEN "claude-low" ELSE IF pct < 80 THEN "claude-mid" ELSE "claude-high"

codex_class(pct) == IF pct < 50 THEN "codex-low" ELSE IF pct < 80 THEN "codex-mid" ELSE "codex-high"

\* the "percentage" key of claude's output
claude_percentage(d, show_5h) == IF show_5h THEN d["5h_pct"] ELSE d["pct"]

codex_percentage(d) == d["pct"]

Data(short, long, target, status, win, icon, time_icon) ==
    [k \in FieldNames |->
        CASE k = "5h_pct" -> IntVal(Pct(short))
          [] k = "7d_pct" -> IntVal(Pct(long))
          [] k = "5h_reset" -> StrVal(ResetStr(short))
          [] k = "7d_reset" -> StrVal(ResetStr(long))
          [] k = "icon" -> StrVal(<<icon>>)
          [] k = "icon_plain" -> StrVal(<<"<plain icon>">>)
          [] k = "time_icon" -> StrVal(<<time_icon>>)
          [] k = "time_icon_plain" -> StrVal(<<"<plain time icon>">>)
          [] k = "status" -> StrVal(status)
          [] k = "pct" -> IntVal(Pct(target))
          [] k = "reset" -> StrVal(ResetStr(target))
          [] k = "win" -> StrVal(<<win>>)]

NoData == [k \in {} |-> StrVal(<<>>)]

\* the text printed when no --format is given
DefaultText(d) ==
    IF d["status"].txt = <<"Pause">> THEN d["icon"].txt \o <<" ", "Pause">>
    ELSE IF d["status"].txt = <<"Ready">> THEN d["icon"].txt \o <<" ", "Ready">>
    ELSE d["icon"].txt \o <<" ">> \o d["pct"].txt \o <<"%", " ">> \o d["time_icon"].txt
         \o <<" ">> \o d["reset"].txt

\* the tooltip printed when no --tooltip-format is given
DefaultTooltip(short, long) ==
    <<"Window     Used    Reset\n", "<rule>\n", "5-Hour     ">>
    \o Pad3(Pct(short)) \o <<"%", "    ">> \o ResetStr(short) \o <<"\n", "7-Day      ">>
    \o Pad3(Pct(long)) \o <<"%", "    ">> \o ResetStr(long) \o <<"\n", "\n", "Click to Refresh">>

\* one line of standard output: a waybar payload, an error payload, or plain text
Payload(text, tooltip, class, alt, percentage) ==
    [kind |-> "payload", text |-> text, tooltip |-> tooltip, class |-> class,
     alt |-> alt, percentage |-> percentage]

ErrorPayload(text, tooltip) ==
    [kind |-> "error", text |-> text, tooltip |-> tooltip, class |-> "critical",
     alt |-> "", percentage |-> <<>>]

Plain(text) ==
    [kind |-> "plain", text |-> text, tooltip |-> <<>>, class |-> "",
     alt |-> "", percentage |-> <<>>]

\* the outcome of a call of print_waybar: the exception it raised ("" for none),
\* the data mapping it built, the payload it printed
Printed(d, out) == [err |-> "", data |-> d, out |-> <<out>>]
Failed(e, d) == [err |-> e, data |-> d, out |-> <<>>]

\* "format_output(format_str, data) if format_str else" the default
TextOf(format_str, d) ==
    IF format_str # <<>> THEN format_output(format_str, d) ELSE Ok(DefaultText(d), <<>>)

TooltipOf(tooltip_format, d, short, long) ==
    IF tooltip_format # <<>> THEN format_output(tooltip_format, d)
    ELSE Ok(DefaultTooltip(short, long), <<>>)

\* the text and the tooltip, then the payload
Render(d, text, tooltip, class, alt, percentage) ==
    IF text.err # "" THEN Failed(text.err, d)
    ELSE IF tooltip.err # "" THEN Failed(tooltip.err, d)
    ELSE Printed(d, Payload(text.out, tooltip.out, class, alt, percentage))

\* claude.py lines 168-225, with the data mapping built
claude_emit(fh, sd, d, class, win_name, format_str, tooltip_format, show_5h) ==
    Render(d, TextOf(format_str, d), TooltipOf(tooltip_format, d, fh, sd), class,
           win_name, claude_percentage(d, show_5h).txt)

\* claude.py lines 135-182, with the active window chosen
claude_show(fh, sd, target, win_name, window_length, format_str, tooltip_format, show_5h) ==
    claude_emit(fh, sd,
                Data(fh, sd, target,
                     claude_status(sd, claude_is_unused(target, window_length),
                                   window_not_started(target)),
                     win_name, "<claude icon>", "<claude time icon>"),
                claude_class(Pct(target)), win_name, format_str, tooltip_format, show_5h)

\* claude.py lines 109-133
claude_choose(fh, sd, which, format_str, tooltip_format, show_5h) ==
    IF which = "short"
    THEN claude_show(fh, sd, fh, "5h", FiveHours, format_str, tooltip_format, show_5h)
    ELSE claude_show(fh, sd, sd, "7d", SevenDays, format_str, tooltip_format, show_5h)

claude_parsed(fh, sd, format_str, tooltip_format, show_5h) ==
    claude_choose(fh, sd, claude_target(fh, sd, show_5h), format_str, tooltip_format, show_5h)

claude_print_waybar(u, format_str, tooltip_format, show_5h) ==
    claude_parsed(parse_window_percent(u.short), parse_window_percent(u.long),
                  format_str, tooltip_format, show_5h)

\* codex.py lines 149-206, with the data mapping built
codex_emit(p_win, s_win, d, class, win_type, format_str, tooltip_format) ==
    Render(d, TextOf(format_str, d), TooltipOf(tooltip_format, d, p_win, s_win), class,
           win_type, codex_percentage(d).txt)

\* codex.py lines 130-163, with the active window chosen
codex_show(p_win, s_win, target_win, target_raw, win_type, format_str, tooltip_format) ==
    IF codex_unused_raises(target_raw) THEN Failed("TypeError", NoData)
    ELSE codex_emit(p_win, s_win,
                    Data(p_win, s_win, target_win,
                         codex_status(s_win, codex_is_unused(target_raw),
                                      window_not_started(target_win)),
                         win_type, "<codex icon>", "<codex time icon>"),
                    codex_class(Pct(target_win)), win_type, format_str, tooltip_format)

\* codex.py lines 108-128
codex_choose(u, p_win, s_win, which, format_str, tooltip_format) ==
    IF which = "short"
    THEN codex_show(p_win, s_win, p_win, u.short, "Primary", format_str, tooltip_format)
    ELSE codex_show(p_win, s_win, s_win, u.long, "Secondary", format_str, tooltip_format)

codex_parsed(u, p_win, s_win, format_str, tooltip_format, show_5h) ==
    codex_choose(u, p_win, s_win, codex_target(p_win, s_win, show_5h), format_str, tooltip_format)

codex_print_waybar(u, format_str, tooltip_format, show_5h) ==
    codex_parsed(u, parse_window_direct(u.short), parse_window_direct(u.long),
                 format_str, tooltip_format, show_5h)

(***************************************************************************)
(* load_cookies (common.py).  found[i] says what the i-th browser tried    *)
(* holds: no loader ("unsupported"), a loader that raises ("raises"), no   *)
(* cookie ("empty"), cookies without lastActiveOrg ("no_org"), or cookies  *)
(* with it ("with_org").                                                   *)
(***************************************************************************)
DEFAULT_BROWSERS == <<"chrome", "chromium", "brave", "edge", "firefox">>

Behaviours == {"unsupported", "raises", "empty", "no_org", "with_org"}

ErrorEntry(name, what) ==
    CASE what = "unsupported" -> <<name, ": unsupported by browser_cookie3">>
      [] what = "raises" -> <<name, ": ", "<loader error>">>
      [] OTHER -> <<name, ": no cookies found">>

RECURSIVE JoinErrors(_)
\* "; ".join(errors)
JoinErrors(errors) ==
    IF errors = <<>> THEN <<>>
    ELSE IF Len(errors) = 1 THEN errors[1]
    ELSE errors[1] \o <<"; ">> \o JoinErrors(Tail(errors))

RECURSIVE TryBrowsers(_, _, _, _)
\* the loop over the browsers from index i on, with the errors collected so far;
\* "tried" counts the browsers whose loader the loop looked up
TryBrowsers(browsers, found, i, errors) ==
    IF i > Len(browsers)
        THEN [ok |-> FALSE, name |-> "", jar |-> "", errors |-> errors, tried |-> i - 1]
    ELSE IF found[i] \in {"no_org", "with_org"}
        THEN [ok |-> TRUE, name |-> browsers[i], jar |-> found[i], errors |-> errors,
              tried |-> i]
    ELSE TryBrowsers(browsers, found, i + 1, Append(errors, ErrorEntry(browsers[i], found[i])))

\* BrowserList with firefox moved to the front of the default order
BrowserList_firefox_first(browsers) ==
    IF browsers = <<>> THEN <<"firefox", "chrome", "chromium", "brave", "edge">> ELSE browsers

\* the list load_cookies walks: "list(browsers or DEFAULT_BROWSERS)"
BrowserList(browsers) == IF browsers = <<>> THEN DEFAULT_BROWSERS ELSE browsers

load_cookies(domain, browsers, found) ==
    LET r == TryBrowsers(BrowserList(browsers), found, 1, <<>>)
    IN  IF r.ok THEN [err |-> <<>>, jar |-> r.jar, name |-> r.name, tried |-> r.tried]
        ELSE [err |-> <<"Failed to read cookies for ", domain, ": ">>
                      \o (IF r.errors = <<>> THEN <<"no browsers provided">>
                          ELSE JoinErrors(r.errors)),
              jar |-> "", name |-> "", tried |-> r.tried]

(***************************************************************************)
(* Upstream responses and the exceptions they turn into.                   *)
(***************************************************************************)
Response(endpoint, kind, status, body) ==
    [endpoint |-> endpoint, kind |-> kind, status |-> status, body |-> body]

NoResponse == Response("", "", 0, "")

\* the statuses upstream answers with
Statuses == {200, 401, 403, 500}

\* a transport failure (a timeout), or an HTTP answer whose body is JSON or not;
\* the JSON of the session endpoint holds an accessToken or not
Responses(endpoint) ==
    {Response(endpoint, "transport", 0, "")}
    \cup {Response(endpoint, "http", st, b) :
            st \in Statuses,
            b \in IF endpoint = "session" THEN {"json", "garbage", "no_token"}
                  ELSE {"json", "garbage"}}

\* str() of the exception a response raises in the retry loop, <<>> when it raises none;
\* forbidden is the message of the explicit 403 check, <<>> where there is no such check
ErrorOf(resp, forbidden) ==
    IF resp.kind = "transport" THEN <<"Failed to perform, curl: (28) Operation timed out">>
    ELSE IF resp.status = 403 /\ forbidden # <<>> THEN forbidden
    ELSE IF resp.status >= 400 THEN <<"HTTP Error ">> \o Digits(resp.status) \o <<": ">>
    ELSE IF resp.body = "garbage" THEN <<"Expecting value: line 1 column 1 (char 0)">>
    ELSE IF resp.body = "no_token" THEN <<"accessToken not found in session response.">>
    ELSE <<>>

ClaudeForbidden ==
    <<"4", "0", "3", " Forbidden: Try updating browser_cookie3 or refresh the page in browser.">>

CodexForbidden ==
    <<"4", "0", "3", " Forbidden: Cloudflare blocked, check IP or update browser_cookie3">>

\* RuntimeError(f"Request failed: {last_error}")
RequestFailed(error) == <<"Request failed: ">> \o error

NoExc == [type |-> "", msg |-> <<>>]
Exc(type, msg) == [type |-> type, msg |-> msg]

(***************************************************************************)
(* The command lines the programs are run with.                            *)
(***************************************************************************)
\* --format and --tooltip-format (<<>>: not given)
FormatArgs ==
    { <<(<<>>), (<<>>)>>,
      <<(<<"{", "?", "status", "}", "{", "status", "}", " ", "{", "/", "status", "}",
          "{", "pct", "}", "%">>), (<<>>)>>,
      <<(<<"{", "?", "nope", "}", "{", "nope", "}", "{", "/", "nope", "}", "{", "win", "}">>), (<<>>)>>,
      <<(<<"{", "pct", "}", "{", "nope", "}">>), (<<>>)>>,
      <<(<<>>), (<<"{", "7d_pct", "}", "{", "nope", "}">>)>> }

\* --browser (<<>>: not given)
BrowserArgs == {<<>>, <<"firefox">>, <<"netscape", "chrome">>}

Args(waybar, browser, format, tooltip_format, show_5h) ==
    [waybar |-> waybar, browser |-> browser, format |-> format,
     tooltip_format |-> tooltip_format, show_5h |-> show_5h]

NoArgs == Args(FALSE, <<>>, <<>>, <<>>, FALSE)

\* every way of rendering with the default browsers, and every browser list with the
\* default rendering
ArgsChoices ==
    {Args(TRUE, <<>>, f[1], f[2], s) : f \in FormatArgs, s \in BOOLEAN}
    \cup {Args(w, b, <<>>, <<>>, s) : w \in BOOLEAN, b \in BrowserArgs, s \in {FALSE}}

NoCall == [reset_at |-> NoReset, result |-> <<>>]
NoFmtCall == [format_string |-> <<>>, data |-> NoData, result |-> Ok(<<>>, <<>>)]
NoCookieCall ==
    [domain |-> "", browsers |-> <<>>, found |-> <<>>,
     result |-> [err |-> <<>>, jar |-> "", name |-> "", tried |-> 0]]

Init ==
    /\ unit \in {"claude", "codex", "lib"}
    /\ args \in IF unit = "lib" THEN {NoArgs} ELSE ArgsChoices
    /\ pc = "start"
    /\ cookies = ""
    /\ attempt = 0
    /\ last_error = <<>>
    /\ log = <<>>
    /\ last_resp = NoResponse
    /\ reqs = [session |-> 0, usage |-> 0]
    /\ usage = NoUsage
    /\ data = NoData
    /\ stdout = <<>>
    /\ stderr = <<>>
    /\ exit_code = -1
    /\ exc = NoExc
    /\ eta_call = NoCall
    /\ fmt_call = NoFmtCall
    /\ cookie_call = NoCookieCall

(***************************************************************************)
(* get_claude_usage and get_codex_usage.                                   *)
(***************************************************************************)
\* the exception leaves get_*_usage: its locals are gone
RaiseFromGetUsage(msg) ==
    /\ exc' = Exc("RuntimeError", msg)
    /\ pc' = "except"
    /\ cookies' = ""
    /\ attempt' = 0
    /\ last_error' = <<>>

\* AttemptFailed with last_error set by the first failure only
AttemptFailed_keeps_first(error) ==
    /\ log' = Append(log, "raised")
    /\ IF attempt = 0
       THEN /\ attempt' = 1
            /\ last_error' = error
            /\ pc' = "request"
            /\ UNCHANGED <<cookies, exc>>
       ELSE RaiseFromGetUsage(RequestFailed(last_error))
    /\ UNCHANGED usage

\* an attempt of the retry loop failed with the error: retry once, then raise
AttemptFailed(error) ==
    /\ log' = Append(log, "raised")
    /\ IF attempt = 0
       THEN /\ attempt' = 1
            /\ last_error' = error
            /\ pc' = "request"
            /\ UNCHANGED <<cookies, exc>>
       ELSE RaiseFromGetUsage(RequestFailed(error))
    /\ UNCHANGED usage

\* an attempt of the retry loop returned the payload: get_*_usage returns it
AttemptReturned(payload) ==
    /\ log' = Append(log, "returned")
    /\ usage' = payload
    /\ pc' = "fetched"
    /\ cookies' = ""
    /\ attempt' = 0
    /\ last_error' = <<>>
    /\ UNCHANGED exc

\* claude.py lines 33-43: the cookies and the organization id
claude_load ==
    /\ unit = "claude" /\ pc = "start"
    /\ \E found \in [1..Len(BrowserList(args.browser)) -> Behaviours] :
        LET r == load_cookies("claude.ai", args.browser, found) IN
        IF r.err # <<>>
        THEN RaiseFromGetUsage(<<"Failed to read cookies: ">> \o r.err)
        ELSE IF r.jar # "with_org"
        THEN RaiseFromGetUsage(<<"Missing 'lastActiveOrg' in cookies.">>)
        ELSE /\ cookies' = r.jar
             /\ pc' = "request"
             /\ UNCHANGED <<attempt, last_error, exc>>
    /\ UNCHANGED <<unit, args, log, last_resp, reqs, usage, data, stdout, stderr,
                   exit_code, eta_call, fmt_call, cookie_call>>

\* claude.py lines 49-71: one attempt of the retry loop
claude_request ==
    /\ unit = "claude" /\ pc = "request"
    /\ \E resp \in Responses("usage") :
        /\ last_resp' = resp
        /\ reqs' = [reqs EXCEPT !.usage = @ + 1]
        /\ IF ErrorOf(resp, ClaudeForbidden) # <<>>
           THEN AttemptFailed(ErrorOf(resp, ClaudeForbidden))
           ELSE \E payload \in ClaudePayloads : AttemptReturned(payload)
    /\ UNCHANGED <<unit, args, data, stdout, stderr, exit_code, eta_call, fmt_call, cookie_call>>

\* codex.py lines 31-34: the cookies
codex_load ==
    /\ unit = "codex" /\ pc = "start"
    /\ \E found \in [1..Len(BrowserList(args.browser)) -> Behaviours] :
        LET r == load_cookies("chatgpt.com", args.browser, found) IN
        IF r.err # <<>>
        THEN RaiseFromGetUsage(<<"Failed to read browser cookies: ">> \o r.err)
        ELSE /\ cookies' = r.jar
             /\ pc' = "request"
             /\ UNCHANGED <<attempt, last_error, exc>>
    /\ UNCHANGED <<unit, args, log, last_resp, reqs, usage, data, stdout, stderr,
                   exit_code, eta_call, fmt_call, cookie_call>>

\* codex.py lines 41-57: the session request of an attempt
codex_request_session ==
    /\ unit = "codex" /\ pc = "request"
    /\ \E resp \in Responses("session") :
        /\ last_resp' = resp
        /\ reqs' = [reqs EXCEPT !.session = @ + 1]
        /\ IF ErrorOf(resp, CodexForbidden) # <<>>
           THEN AttemptFailed(ErrorOf(resp, CodexForbidden))
           ELSE /\ pc' = "request_usage"
                /\ UNCHANGED <<cookies, attempt, last_error, log, usage, exc>>
    /\ UNCHANGED <<unit, args, data, stdout, stderr, exit_code, eta_call, fmt_call, cookie_call>>

\* codex.py lines 59-80: the usage request of an attempt
codex_request_usage ==
    /\ unit = "codex" /\ pc = "request_usage"
    /\ \E resp \in Responses("usage") :
        /\ last_resp' = resp
        /\ reqs' = [reqs EXCEPT !.usage = @ + 1]
        /\ IF ErrorOf(resp, <<>>) # <<>>
           THEN AttemptFailed(ErrorOf(resp, <<>>))
           ELSE \E payload \in CodexPayloads : AttemptReturned(payload)
    /\ UNCHANGED <<unit, args, data, stdout, stderr, exit_code, eta_call, fmt_call, cookie_call>>

(***************************************************************************)
(* main (claude.py, codex.py).                                             *)
(***************************************************************************)
\* the short label of the error payload
claude_short_err(err_msg) ==
    IF Contains(err_msg, <<"4", "0", "3">>) THEN "Auth Err" ELSE "Net Err"

codex_short_err(err_msg) ==
    IF Contains(err_msg, <<"4", "0", "3">>) \/ Contains(err_msg, <<"4", "0", "1">>)
    THEN "Auth Err" ELSE "Net Err"

\* error_exit_code with the failure reported to the caller in both modes
error_exit_code_always_1(waybar) == 1

\* "sys.exit(0)" in waybar mode, "sys.exit(1)" otherwise
error_exit_code(waybar) == IF waybar THEN 0 ELSE 1

\* "except Exception as e" around get_*_usage
main_except ==
    /\ unit \in {"claude", "codex"} /\ pc = "except"
    /\ LET short_err == IF unit = "claude" THEN claude_short_err(exc.msg)
                        ELSE codex_short_err(exc.msg)
           head == IF unit = "claude" THEN "Error fetching Claude usage:\n" ELSE "Error:\n"
       IN  IF args.waybar
           THEN /\ stdout' = Append(stdout, ErrorPayload(<<"<error icon> ", short_err>>,
                                                         <<head>> \o exc.msg))
                /\ UNCHANGED stderr
           ELSE /\ stderr' = Append(stderr, <<"[!] Critical Error: ">> \o exc.msg)
                /\ UNCHANGED stdout
    /\ exit_code' = error_exit_code(args.waybar)
    /\ pc' = "exited"
    /\ UNCHANGED <<unit, args, cookies, attempt, last_error, log, last_resp, reqs,
                   usage, data, exc, eta_call, fmt_call, cookie_call>>

\* the end of the run after print_waybar returned or raised: an exception it raises
\* is caught nowhere, the interpreter prints the traceback and exits with 1
AfterPrintWaybar(r) ==
    /\ data' = r.data
    /\ IF r.err = ""
       THEN /\ stdout' = stdout \o r.out
            /\ exit_code' = 0
            /\ pc' = "exited"
            /\ UNCHANGED <<stderr, exc>>
       ELSE /\ exc' = Exc(r.err, <<>>)
            /\ stderr' = Append(stderr, <<"Traceback (most recent call last):", r.err>>)
            /\ exit_code' = 1
            /\ pc' = "crashed"
            /\ UNCHANGED stdout

\* "print_waybar(usage, args.format, args.tooltip_format, args.show_5h)"
main_print_waybar ==
    /\ unit \in {"claude", "codex"} /\ pc = "fetched" /\ args.waybar
    /\ AfterPrintWaybar(
           IF unit = "claude"
           THEN claude_print_waybar(usage, args.format, args.tooltip_format, args.show_5h)
           ELSE codex_print_waybar(usage, args.format, args.tooltip_format, args.show_5h))
    /\ UNCHANGED <<unit, args, cookies, attempt, last_error, log, last_resp, reqs,
                   usage, eta_call, fmt_call, cookie_call>>

\* f"{x:.1f}" of a utilization in tenths
Fixed1(tenths) == Digits(tenths \div 10) \o <<".">> \o Digits(tenths % 10)

\* claude.py print_cli: "_fmt_reset"
claude_fmt_reset(win) ==
    IF win.utilization = 0 /\ ~Present(win.resets_at) THEN NotStarted
    ELSE format_eta(win.resets_at)

claude_print_cli(u) ==
    LET fh == parse_window_percent(u.short)
        sd == parse_window_percent(u.long)
    IN  << Plain(<<"<json of the payload>">>),
           Plain(<<"----------------------------------------">>),
           Plain(<<"5-hour : ">> \o Fixed1(fh.utilization) \o <<"%  (Reset in ">>
                 \o claude_fmt_reset(fh) \o <<")">>),
           Plain(<<"7-day  : ">> \o Fixed1(sd.utilization) \o <<"%  (Reset in ">>
                 \o claude_fmt_reset(sd) \o <<")">>) >>

codex_print_cli(u) ==
    LET p == parse_window_direct(u.short)
        s == parse_window_direct(u.long)
    IN  << Plain(<<"<json of the payload>">>),
           Plain(<<"----------------------------------------">>),
           Plain(<<"Primary   (Short): ">> \o Fixed1(p.utilization) \o <<"% | Reset in ">>
                 \o format_eta(p.resets_at)),
           Plain(<<"Secondary (Long) : ">> \o Fixed1(s.utilization) \o <<"% | Reset in ">>
                 \o format_eta(s.resets_at)) >>

\* "print_cli(usage)"
main_print_cli ==
    /\ unit \in {"claude", "codex"} /\ pc = "fetched" /\ ~args.waybar
    /\ stdout' = stdout \o (IF unit = "claude" THEN claude_print_cli(usage)
                            ELSE codex_print_cli(usage))
    /\ exit_code' = 0
    /\ pc' = "exited"
    /\ UNCHANGED <<unit, args, cookies, attempt, last_error, log, last_resp, reqs,
                   usage, data, stderr, exc, eta_call, fmt_call, cookie_call>>

(***************************************************************************)
(* Direct calls of the library functions.                                  *)
(***************************************************************************)
\* the reset times format_eta is called with: around each boundary of its forms
EtaResets ==
    {NoReset, BadReset}
    \cup {ResetAt(k, 2 * b + off) :
            k \in {"iso", "int"},
            b \in {0, 60, 3600, 86400, 90000, 360000},
            off \in (0 - MaxSkew)..MaxSkew}

call_format_eta ==
    /\ unit = "lib" /\ pc = "start"
    /\ \E r \in EtaResets : eta_call' = [reset_at |-> r, result |-> format_eta(r)]
    /\ pc' = "called"
    /\ UNCHANGED <<unit, args, cookies, attempt, last_error, log, last_resp, reqs,
                   usage, data, stdout, stderr, exit_code, exc, fmt_call, cookie_call>>

call_format_output ==
    /\ unit = "lib" /\ pc = "start"
    /\ \E t \in Templates, d \in Mappings :
        fmt_call' = [format_string |-> t, data |-> d, result |-> format_output(t, d)]
    /\ pc' = "called"
    /\ UNCHANGED <<unit, args, cookies, attempt, last_error, log, last_resp, reqs,
                   usage, data, stdout, stderr, exit_code, exc, eta_call, cookie_call>>

\* the browser lists a caller passes: none, one, two, and one with a repeated name
CookieBrowsers == BrowserArgs \cup {<<"edge", "brave", "edge">>}

call_load_cookies ==
    /\ unit = "lib" /\ pc = "start"
    /\ \E domain \in {"claude.ai", "chatgpt.com"}, browsers \in CookieBrowsers :
        \E found \in [1..Len(BrowserList(browsers)) -> Behaviours] :
            cookie_call' = [domain |-> domain, browsers |-> browsers, found |-> found,
                            result |-> load_cookies(domain, browsers, found)]
    /\ pc' = "called"
    /\ UNCHANGED <<unit, args, cookies, attempt, last_error, log, last_resp, reqs,
                   usage, data, stdout, stderr, exit_code, exc, eta_call, fmt_call>>

Next ==
    \/ claude_load
    \/ claude_request
    \/ codex_load
    \/ codex_request_session
    \/ codex_request_usage
    \/ main_except
    \/ main_print_waybar
    \/ main_print_cli
    \/ call_format_eta
    \/ call_format_output
    \/ call_load_cookies

Spec == Init /\ [][Next]_vars

(***************************************************************************)
(* What the claims speak of.                                               *)
(***************************************************************************)
\* the utilization of a window of the payload, in tenths
UtilOf(raw) == IF raw.present /\ raw.used.kind = "num" THEN raw.used.v ELSE 0

ResetOf(raw) == IF raw.present THEN raw.resets_at ELSE NoReset

ShortLabel == IF unit = "claude" THEN "5h" ELSE "Primary"
LongLabel == IF unit = "claude" THEN "7d" ELSE "Secondary"

\* get_*_usage returned a payload
Fetched == log # <<>> /\ log[Len(log)] = "returned"

\* print_waybar was called and built its data mapping
BuiltData == pc \in {"exited", "crashed"} /\ args.waybar /\ Fetched /\ DOMAIN data # {}

\* print_waybar was called and printed its payload
PrintedPayload ==
    pc = "exited" /\ args.waybar /\ Fetched /\ Len(stdout) = 1 /\ stdout[1].kind = "payload"

\* the run ended with a failure of the fetch path
FetchFailed == pc \in {"except", "exited"} /\ exc.type # ""

\* the window the precedence rules of the specification select
SelectedWindow ==
    IF args.show_5h THEN "short"
    ELSE IF UtilOf(usage.long) >= 1000 THEN "long"
    ELSE IF UtilOf(usage.long) > 800 THEN "long"
    ELSE "short"

SelectedRaw == IF SelectedWindow = "short" THEN usage.short ELSE usage.long
SelectedLabel == IF SelectedWindow = "short" THEN ShortLabel ELSE LongLabel

\* C1: the payload print_waybar prints shows the window chosen by the precedence
\* show_5h, then long >= 100, then long > 80, then short: its label is the "alt" (and
\* the "win" field) and its rounded utilization is the "pct" field
C1_ActiveWindowPrecedence ==
    PrintedPayload =>
        /\ stdout[1].alt = SelectedLabel
        /\ data["win"].txt = <<SelectedLabel>>
        /\ data["pct"].txt = Digits(RoundHalfEven(UtilOf(SelectedRaw)))

\* short 0 / long 95.4 with default flags: the long window with percentage 95, class high
C1_Witness ==
    /\ PrintedPayload /\ unit = "claude" /\ ~args.show_5h
    /\ UtilOf(usage.short) = 0 /\ UtilOf(usage.long) = 954
    /\ stdout[1].alt = "7d" /\ data["pct"].txt = <<"9", "5">>
    /\ stdout[1].class = "claude-high"

\* C2: with the long window at 100 or more the status is "Pause" whatever the flag and
\* the short window; with show_5h set the window shown is still the short one
C2_PauseWhenLongExhausted ==
    (BuiltData /\ UtilOf(usage.long) >= 1000) =>
        /\ data["status"].txt = <<"Pause">>
        /\ args.show_5h =>
            /\ data["win"].txt = <<ShortLabel>>
            /\ data["pct"].txt = Digits(RoundHalfEven(UtilOf(usage.short)))
            /\ data["reset"].txt = (IF Present(ResetOf(usage.short))
                                    THEN format_eta(ResetOf(usage.short)) ELSE NotStarted)
            /\ PrintedPayload => stdout[1].alt = ShortLabel

\* the long window exhausted, show_5h set, the short window unused: "Pause", shown short
C2_Witness ==
    /\ PrintedPayload /\ args.show_5h
    /\ UtilOf(usage.long) = 1000 /\ UtilOf(usage.short) = 0
    /\ ~Present(ResetOf(usage.short))
    /\ data["status"].txt = <<"Pause">>
    /\ stdout[1].alt = ShortLabel

\* C3: a failure of the fetch path never escapes main: in waybar mode the run prints one
\* error payload and exits with 0, otherwise it prints one message on stderr and exits
\* with 1; a run in waybar mode that exits with another code had fetched its payload
C3_FetchFailureCaught ==
    /\ (pc = "exited" /\ exc.type # "") =>
            IF args.waybar
            THEN exit_code = 0 /\ Len(stdout) = 1 /\ stdout[1].kind = "error" /\ stderr = <<>>
            ELSE exit_code = 1 /\ Len(stderr) = 1 /\ stdout = <<>>
    /\ (args.waybar /\ exit_code \notin {-1, 0}) => Fetched
    /\ pc = "crashed" => Fetched

\* both attempts failed in waybar mode: one error payload, exit code 0
C3_Witness ==
    /\ pc = "exited" /\ args.waybar /\ log = <<"raised", "raised">>
    /\ exit_code = 0 /\ Len(stdout) = 1 /\ stdout[1].kind = "error"

\* the error the last response raises in the retry loop of the program that runs
LastError ==
    ErrorOf(last_resp, IF unit = "claude" THEN ClaudeForbidden
                       ELSE IF last_resp.endpoint = "session" THEN CodexForbidden
                       ELSE <<>>)

\* C4: at most two attempts and at most two requests to each endpoint; a second attempt
\* exactly when the first raised, started at once; the first payload returned ends the
\* loop; "Request failed: <error of the second attempt>" exactly when both attempts raised
C4_RetryOnce ==
    /\ Len(log) <= 2 /\ reqs.usage <= 2 /\ reqs.session <= 2
    /\ Len(log) = 2 => log[1] = "raised"
    /\ log = <<"raised">> => pc \in {"request", "request_usage"} /\ attempt = 1
    /\ Fetched => pc \in {"fetched", "exited", "crashed"}
    /\ (unit = "claude" /\ pc # "request") => reqs.usage = Len(log)
    /\ (unit = "codex" /\ pc \notin {"request", "request_usage"}) => reqs.session = Len(log)
    /\ log = <<"raised", "raised">> =>
            /\ pc \in {"except", "exited"}
            /\ exc = Exc("RuntimeError", RequestFailed(LastError))
    /\ (exc.msg # <<>> /\ exc.msg[1] = "Request failed: ") => log = <<"raised", "raised">>

\* two attempts that fail in different ways: the error of the second one is raised
C4_Witness ==
    /\ pc = "except" /\ log = <<"raised", "raised">>
    /\ last_resp.kind = "http" /\ last_resp.status = 500
    /\ exc.msg = <<"Request failed: ", "HTTP Error ", "5", "0", "0", ": ">>
    /\ reqs.usage = 2

\* the failure that reached main is an authentication failure: both attempts raised and
\* the last answer was HTTP 401 or 403
AuthFailure ==
    /\ log = <<"raised", "raised">>
    /\ last_resp.kind = "http"
    /\ last_resp.status \in {401, 403}

\* C5: in waybar mode the short label of the error payload is "Auth Err" exactly when
\* the failure that reached main is an authentication failure (HTTP 401 or 403), and
\* "Net Err" for every other failure
C5_AuthErrLabel ==
    (pc = "exited" /\ exc.type # "" /\ args.waybar /\ Len(stdout) = 1) =>
        /\ stdout[1].text[2] \in {"Auth Err", "Net Err"}
        /\ stdout[1].text[2] = "Auth Err" <=> AuthFailure

\* a field reference "{name}" at index i of the template: not an escaped brace, and
\* outside every conditional block (no block opens before it, or none closes after it)
ReferenceOutside(t, i) ==
    /\ i + 2 <= Len(t)
    /\ t[i] = "{" /\ t[i + 1] \in WordTokens /\ t[i + 2] = "}"
    /\ i = 1 \/ t[i - 1] # "{"
    /\ \/ \A q \in 1..(i - 1) : t[q] # "?"
       \/ \A q \in (i + 3)..Len(t) : t[q] # "/"

\* the template references, outside any conditional block, a field that is no key
UnknownOutside(t, keys) ==
    \E i \in 1..Len(t) : ReferenceOutside(t, i) /\ t[i + 1] \notin keys

\* C6: format_output raises for every template that references, outside any conditional
\* block, a field that is no key of the mapping; in waybar mode nothing catches it: the
\* run ends on the exception, with nothing printed on standard output
C6_UnknownFieldFails ==
    /\ (unit = "lib" /\ pc = "called"
        /\ UnknownOutside(fmt_call.format_string, DOMAIN fmt_call.data)) =>
            fmt_call.result.err # "" /\ fmt_call.result.out = <<>>
    /\ (BuiltData /\ (\/ UnknownOutside(args.format, FieldNames)
                      \/ UnknownOutside(args.tooltip_format, FieldNames))) =>
            pc = "crashed" /\ exc.type = "KeyError" /\ stdout = <<>> /\ exit_code = 1

\* --format "{pct}{nope}" in waybar mode: the run ends on KeyError with nothing printed
C6_Witness ==
    /\ pc = "crashed" /\ args.waybar /\ exc.type = "KeyError"
    /\ args.format = <<"{", "pct", "}", "{", "nope", "}">>
    /\ stdout = <<>>

\* the rule as the claim words it: present in the mapping and not the sentinel
PresentNotSentinel(name, d) ==
    KeyOf(name) \in DOMAIN d /\ d[KeyOf(name)].txt # NotStarted

\* the rule of the code: present, truthy (no empty string, no 0) and not the sentinel
PresentTruthyNotSentinel(name, d) ==
    /\ KeyOf(name) \in DOMAIN d
    /\ d[KeyOf(name)] \notin {StrVal(<<>>), IntVal(0)}
    /\ d[KeyOf(name)].txt # NotStarted

FormatCalled ==
    unit = "lib" /\ pc = "called" /\ eta_call = NoCall /\ cookie_call = NoCookieCall

\* C7 as claimed: a conditional block with the content "x" emits "x" exactly when
\* every listed variable is present in the mapping and not equal to "Not started",
\* and the empty string in every other case
C7_AsClaimed ==
    FormatCalled =>
        \A k \in 1..Len(fmt_call.result.blocks) :
            LET b == fmt_call.result.blocks[k] IN
            b.content = <<"x">> =>
                b.emitted =
                    IF \A n \in 1..Len(b.names) : PresentNotSentinel(b.names[n], fmt_call.data)
                    THEN <<"x">> ELSE <<>>

\* C7 amended: a conditional block, of either form, is shown exactly when every listed
\* variable is present, truthy and not equal to "Not started"; a block not shown yields
\* the empty string, a block shown yields its content with the placeholders expanded
C7_ShownIffPresentTruthyNotSentinel ==
    FormatCalled =>
        \A k \in 1..Len(fmt_call.result.blocks) :
            LET b == fmt_call.result.blocks[k] IN
            /\ b.taken <=> \A n \in 1..Len(b.names) :
                                PresentTruthyNotSentinel(b.names[n], fmt_call.data)
            /\ ~b.taken => b.emitted = <<>>
            /\ (b.taken /\ b.content = <<"x">>) => b.emitted = <<"x">>
            /\ (b.taken /\ b.content = <<"{", "a", "}">>) => b.emitted = fmt_call.data["a"].txt

\* "{?a&b}{a}{/}" with both present: shown; and a single block hidden by an empty value
C7_Witness ==
    /\ FormatCalled
    /\ fmt_call.format_string = <<"{", "?", "a", "&", "b", "}", "{", "a", "}", "{", "/", "}">>
    /\ fmt_call.data = [k \in {"a", "b"} |-> IF k = "a" THEN StrVal(<<"v">>) ELSE StrVal(<<"w">>)]
    /\ Len(fmt_call.result.blocks) = 1
    /\ fmt_call.result.blocks[1].taken
    /\ fmt_call.result.out = <<"v">>

\* the time that remains until the reset of the selected window and the nominal length
\* of that window, in ticks, where the payload gives both
RemainingKnown ==
    IF unit = "claude" THEN ResetOf(SelectedRaw).kind \in {"iso", "int"}
    ELSE /\ SelectedRaw.reset_after_seconds.kind = "num"
         /\ SelectedRaw.limit_window_seconds.kind = "num"

Remaining ==
    IF unit = "claude" THEN ResetOf(SelectedRaw).t
    ELSE 2 * SelectedRaw.reset_after_seconds.v

Nominal ==
    IF unit = "claude" THEN (IF SelectedWindow = "short" THEN 2 * FiveHours ELSE 2 * SevenDays)
    ELSE 2 * SelectedRaw.limit_window_seconds.v

\* C8: the active window at utilization 0 with a reset time, the long window below 100:
\* "Ready" when the time that remains is within one second of the nominal length, the
\* empty status when it is the nominal length minus two seconds or less
C8_ReadyWhenUnused ==
    (/\ BuiltData
     /\ UtilOf(SelectedRaw) = 0
     /\ Present(ResetOf(SelectedRaw))
     /\ UtilOf(usage.long) < 1000
     /\ RemainingKnown) =>
        /\ (Remaining >= Nominal - 2 /\ Remaining <= Nominal + 2) =>
                data["status"].txt = <<"Ready">>
        /\ Remaining <= Nominal - 4 => data["status"].txt = <<>>

\* two digits, zero padded, of a number below 100
TwoDigits(n) == <<DigitChars[(n \div 10) + 1], DigitChars[(n % 10) + 1]>>

\* the four forms of the claim, for s whole seconds
EtaForm(s) ==
    IF s <= 0 THEN <<"0", "m", "0", "0", "s">>
    ELSE IF s >= 86400
        THEN Digits(s \div 86400) \o <<"d">> \o TwoDigits((s % 86400) \div 3600) \o <<"h">>
    ELSE IF s >= 3600
        THEN Digits(s \div 3600) \o <<"h">> \o TwoDigits((s % 3600) \div 60) \o <<"m">>
    ELSE Digits(s \div 60) \o <<"m">> \o TwoDigits(s % 60) \o <<"s">>

EtaCalled == unit = "lib" /\ pc = "called" /\ eta_call # NoCall

ShownPct ==
    RoundHalfEven(UtilOf(IF stdout[1].alt = ShortLabel THEN usage.short ELSE usage.long))

\* the class of the claim: 49 low, 50 mid, 79 mid, 80 high
Tier(pct) ==
    IF pct < 50 THEN (IF unit = "claude" THEN "claude-low" ELSE "codex-low")
    ELSE IF pct < 80 THEN (IF unit = "claude" THEN "claude-mid" ELSE "codex-mid")
    ELSE (IF unit = "claude" THEN "claude-high" ELSE "codex-high")

\* C10: the class is the tier of the shown window's rounded percentage (low below 50,
\* mid below 80, high otherwise) and the "percentage" field is that same percentage
C10_SeverityClass ==
    PrintedPayload =>
        /\ stdout[1].alt \in {ShortLabel, LongLabel}
        /\ stdout[1].class = Tier(ShownPct)
        /\ stdout[1].percentage = Digits(ShownPct)
        /\ data["pct"].txt = Digits(ShownPct)

\* the short window at 49.5 rounds to 50: the mid class, percentage 50
C10_Witness ==
    /\ PrintedPayload /\ unit = "claude"
    /\ UtilOf(usage.short) = 495 /\ stdout[1].alt = "5h"
    /\ stdout[1].percentage = <<"5", "0">>
    /\ stdout[1].class = "claude-mid"

\* print_waybar was called (after a successful fetch, in waybar mode) and the run ended
WaybarCalled == pc \in {"exited", "crashed"} /\ args.waybar /\ Fetched

\* the reset data of the active window is malformed: an unparsable reset timestamp
\* (claude), a null or missing reset_after_seconds or limit_window_seconds (codex)
MalformedReset ==
    /\ SelectedRaw.present
    /\ IF unit = "claude" THEN ResetOf(SelectedRaw).kind = "bad"
       ELSE \/ SelectedRaw.reset_after_seconds.kind \in {"null", "missing"}
            \/ SelectedRaw.limit_window_seconds.kind \in {"null", "missing"}

\* C11: the "unused" computation never raises: with the active window at utilization 0
\* and malformed reset data, print_waybar raises nothing but what the template
\* rendering raises, prints its payload, and the status is "Ready" only where the
\* not-started rule (no reset time at all) gives it
C11_UnusedNeverRaises ==
    (WaybarCalled /\ UtilOf(SelectedRaw) = 0 /\ MalformedReset) =>
        /\ exc.type \in {"", "KeyError", "ValueError", "IndexError"}
        /\ exc.type = "" =>
            /\ PrintedPayload
            /\ data["status"].txt = <<"Ready">> => ~Present(ResetOf(SelectedRaw))

\* the content C of a template that is one conditional block, open C close, where C
\* holds no closing tag of its own
ContentOf(t, open, close) == SubSeq(t, Len(open) + 1, Len(t) - Len(close))

OneBlock(t, open, close) ==
    /\ Len(t) >= Len(open) + Len(close)
    /\ SubSeq(t, 1, Len(open)) = open
    /\ SubSeq(t, Len(t) - Len(close) + 1, Len(t)) = close
    /\ ~Contains(ContentOf(t, open, close), close)

\* the call gave what format_output gives for the template C: the same string or,
\* where C itself cannot be rendered, the same failure
SameAsContent(C) ==
    /\ fmt_call.result.err = format_output(C, fmt_call.data).err
    /\ fmt_call.result.out = format_output(C, fmt_call.data).out

SingleOpenA == <<"{", "?", "a", "}">>
SingleCloseA == <<"{", "/", "a", "}">>
MultiOpenAB == <<"{", "?", "a", "&", "b", "}">>
MultiClose == <<"{", "/", "}">>

\* C12: the expanded content of a taken block is not scanned again by the later
\* passes: for a conditional whose condition is true, format_output of
\* "{?a}C{/a}" (and of "{?a&b}C{/}") equals format_output of "C"
C12_NoRescan ==
    FormatCalled =>
        /\ (/\ OneBlock(fmt_call.format_string, SingleOpenA, SingleCloseA)
            /\ PresentTruthyNotSentinel(<<"a">>, fmt_call.data)) =>
                SameAsContent(ContentOf(fmt_call.format_string, SingleOpenA, SingleCloseA))
        /\ (/\ OneBlock(fmt_call.format_string, MultiOpenAB, MultiClose)
            /\ PresentTruthyNotSentinel(<<"a">>, fmt_call.data)
            /\ PresentTruthyNotSentinel(<<"b">>, fmt_call.data)) =>
                SameAsContent(ContentOf(fmt_call.format_string, MultiOpenAB, MultiClose))

CookiesCalled == unit = "lib" /\ pc = "called" /\ cookie_call # NoCookieCall

\* the order the claim gives: the configured browsers, or the fixed default order
GivenOrder ==
    IF cookie_call.browsers = <<>>
    THEN <<"chrome", "chromium", "brave", "edge", "firefox">>
    ELSE cookie_call.browsers

\* the i-th browser is supported, its loader does not raise and its cookies are non-empty
Yields(i) == cookie_call.found[i] \in {"no_org", "with_org"}

\* the diagnostic the message must carry for the i-th browser
Diagnostic(i) ==
    CASE cookie_call.found[i] = "unsupported" -> ": unsupported by browser_cookie3"
      [] cookie_call.found[i] = "raises" -> ": "
      [] OTHER -> ": no cookies found"

\* the message holds n entries (n - 1 separators) and, for each attempted browser, its
\* name followed by its diagnostic
OneEntryEach(msg, n) ==
    /\ Cardinality({j \in 1..Len(msg) : msg[j] = "; "}) = n - 1
    /\ \A i \in 1..n :
        \E j \in 1..(Len(msg) - 1) : msg[j] = GivenOrder[i] /\ msg[j + 1] = Diagnostic(i)

\* C13: load_cookies walks the browsers in the given order (the default order when none
\* is given), returns the cookies and the name of the first that yields non-empty
\* cookies without trying a later one, and raises exactly when none does, with one
\* diagnostic entry per attempted browser
C13_FirstBrowserInOrder ==
    CookiesCalled =>
        /\ Len(cookie_call.found) = Len(GivenOrder)
        /\ \A k \in 1..Len(GivenOrder) :
            (Yields(k) /\ \A i \in 1..(k - 1) : ~Yields(i)) =>
                /\ cookie_call.result.err = <<>>
                /\ cookie_call.result.name = GivenOrder[k]
                /\ cookie_call.result.jar = cookie_call.found[k]
                /\ cookie_call.result.tried = k
        /\ cookie_call.result.err # <<>> <=> \A i \in 1..Len(GivenOrder) : ~Yields(i)
        /\ cookie_call.result.err # <<>> =>
            /\ cookie_call.result.tried = Len(GivenOrder)
            /\ OneEntryEach(cookie_call.result.err, Len(GivenOrder))

\* the default order with chrome unsupported, chromium raising, brave empty: edge is
\* returned and firefox, which also has cookies, is not tried
C13_Witness ==
    /\ CookiesCalled
    /\ cookie_call.browsers = <<>>
    /\ cookie_call.found =
        <<"unsupported", "raises", "empty", "with_org", "with_org">>
    /\ cookie_call.result.name = "edge"
    /\ cookie_call.result.tried = 4

====
